---- MODULE Spec2Model ----
(***************************************************************************)
(* Model of the game store of impostor-game (src/unnamed/part_001, the     *)
(* current game-store module, lines 1-884): the in-memory category set     *)
(* with its persistence, the persistence of the game configuration, the   *)
(* role assignment of startNewGame, and the handlers of the game screen    *)
(* (src/app/index.tsx) that call it.                                       *)
(*                                                                         *)
(* JavaScript objects are modelled as sequences of entries in property     *)
(* insertion order.  Indices into arrays keep the 0-based values of the    *)
(* code; the element at index i of an array a is a[i + 1].                 *)
(* Category keys are ordinary names: no key is the name of a member of     *)
(* Object.prototype, so CATEGORIES[key] is an own-property lookup.         *)
(* The value under CUSTOM_CATEGORIES_KEY is absent, not valid, or one that  *)
(* saveCustomCategories wrote; the value under STORAGE_KEY may also be one *)
(* that the earlier saveGameState (src/store/game-store.ts) wrote.         *)
(***************************************************************************)
EXTENDS Integers, Sequences, FiniteSets, TLC

VARIABLES
    DEFAULT_CATEGORIES, \* the exported defaults object (its word arrays are mutable)
    CATEGORIES,         \* the in-memory category set
    store,              \* value held by AsyncStorage under CUSTOM_CATEGORIES_KEY
    pending,            \* storage requests issued and not yet completed, oldest first
    loadPc,             \* position of the loadCustomCategories call in flight
    resetPc,            \* position of the resetCategoriesToDefault call in flight
    lastOp,             \* the name of the last category operation that returned
    lastResult,         \* the value that call resolves with
    calls,              \* how many category operations have been called
    pc,                 \* position of the startNewGame call
    variant,            \* its argument `variant`
    players,            \* its argument `players`
    category,           \* its argument `category`
    shuffledPlayers,
    loopI,              \* the loop counter i of shuffleArray / selectUniqueIndices
    available,          \* selectUniqueIndices: the pool
    impostorIndices,
    jesterIndex,
    playerRoles,
    secretWord,
    starterPlayer,
    gameStore,          \* value held by AsyncStorage under STORAGE_KEY
    gameOps,            \* the saveGameState / loadGameState calls, by slot
    gameOrphans,        \* requests on STORAGE_KEY whose await timed out, still in flight
    statePlayers,       \* the game screen's state.players
    selectedVariant,    \* its state.selectedVariant
    currentScreen,      \* its state.currentScreen
    currentPlayerIndex  \* its state.currentPlayerIndex

storeVars == <<DEFAULT_CATEGORIES, CATEGORIES, store, pending, loadPc, resetPc,
               lastOp, lastResult, calls>>
roundVars == <<pc, variant, players, category, shuffledPlayers, loopI, available,
               impostorIndices, jesterIndex, playerRoles, secretWord, starterPlayer>>
gameVars == <<gameStore, gameOps, gameOrphans>>
uiVars == <<statePlayers, selectedVariant, currentScreen, currentPlayerIndex>>
vars == <<storeVars, roundVars, gameVars, uiVars>>

\* The JavaScript value undefined, where a string is expected.
UNDEFINED == "<undefined>"


----------------------------------------------------------------------------
(* Objects as ordered sequences of entries                                 *)

Range(s) == {s[i] : i \in 1..Len(s)}

KeysOf(obj) == {obj[i].key : i \in 1..Len(obj)}

Has(obj, key) == key \in KeysOf(obj)

Get(obj, key) == obj[CHOOSE i \in 1..Len(obj) : obj[i].key = key]

\* obj[key] = entry: an existing property keeps its position, a new one goes last.
Put(obj, entry) ==
    IF Has(obj, entry.key)
    THEN [i \in 1..Len(obj) |-> IF obj[i].key = entry.key THEN entry ELSE obj[i]]
    ELSE Append(obj, entry)

\* delete obj[key]
Delete(obj, key) == SelectSeq(obj, LAMBDA e : e.key # key)

RECURSIVE Spread(_, _)
\* { ...a, ...b }
Spread(a, b) == IF b = <<>> THEN a ELSE Spread(Put(a, Head(b)), Tail(b))

RECURSIVE FlatMapWords(_)
FlatMapWords(obj) ==
    IF obj = <<>> THEN <<>> ELSE Head(obj).words \o FlatMapWords(Tail(obj))

Min(a, b) == IF a <= b THEN a ELSE b

Includes(arr, x) == \E i \in 1..Len(arr) : arr[i] = x

Filter(arr, x) == SelectSeq(arr, LAMBDA w : w # x)

----------------------------------------------------------------------------
(* Shipped data                                                            *)

\* The defaults as written in the source: 'mixta' first with no words, then the
\* themed categories.  Two themed categories with two words each stand for the
\* eleven shipped ones; as in the shipped lists ('Avión', 'Submarino' are both a
\* place and a transport) one word belongs to both.
ShippedDefaults ==
    << [key |-> "mixta", emoji |-> "e-mixta", name |-> "Mixta", words |-> <<>>],
       [key |-> "lugares", emoji |-> "e-lugares", name |-> "Lugares",
        words |-> <<"Playa", "Avion">>],
       [key |-> "transporte", emoji |-> "e-transporte", name |-> "Transporte",
        words |-> <<"Carro", "Avion">>] >>

GAME_VARIANTS ==
    [v \in {"classic", "double-impostor", "accomplices", "jester", "chaos"} |->
        CASE v = "classic" ->
               [minPlayers |-> 3, impostorCount |-> 1, hasJester |-> FALSE,
                impostorsKnowEachOther |-> FALSE]
          [] v = "double-impostor" ->
               [minPlayers |-> 5, impostorCount |-> 2, hasJester |-> FALSE,
                impostorsKnowEachOther |-> FALSE]
          [] v = "accomplices" ->
               [minPlayers |-> 5, impostorCount |-> 2, hasJester |-> FALSE,
                impostorsKnowEachOther |-> TRUE]
          [] v = "jester" ->
               [minPlayers |-> 4, impostorCount |-> 1, hasJester |-> TRUE,
                impostorsKnowEachOther |-> FALSE]
          [] v = "chaos" ->
               [minPlayers |-> 6, impostorCount |-> 2, hasJester |-> TRUE,
                impostorsKnowEachOther |-> FALSE]]

----------------------------------------------------------------------------
(* The category set                                                        *)

(* An entry of DEFAULT_CATEGORIES or CATEGORIES is a property key with the  *)
(* category object it refers to: emoji, name, words, isCustom (FALSE when   *)
(* the property is absent).  Objects and arrays are shared by reference in  *)
(* the code; `ref` records what the category object of an entry shares with *)
(* the object DEFAULT_CATEGORIES holds under the same key:                  *)
(*   "default"  it is that very object;                                     *)
(*   "array"    it is another object whose words is the same array;         *)
(*   "own"      it shares nothing.                                          *)

\* The object DEFAULT_CATEGORIES holds for a shipped category.
DefaultObject(d) ==
    [key |-> d.key, emoji |-> d.emoji, name |-> d.name, words |-> d.words,
     isCustom |-> FALSE, ref |-> "default"]

\* Mutant of getAllWords: the entry of 'mixta' is not filtered out.
getAllWordsWithMixed(categories) == FlatMapWords(categories)

\* Object.entries(categories).filter(([key]) => key !== 'mixta')
\*       .flatMap(([, category]) => category.words)
getAllWords(categories) ==
    FlatMapWords(SelectSeq(categories, LAMBDA e : e.key # "mixta"))

\* { ...categories, mixta: { ...categories.mixta, words: getAllWords(categories) } }
updateMixedCategory(categories) ==
    Put(categories,
        [Get(categories, "mixta") EXCEPT !.words = getAllWords(categories),
                                         !.ref = "own"])

\* The module's initialisation: let CATEGORIES = { ...DEFAULT_CATEGORIES };
\* CATEGORIES = updateMixedCategory(CATEGORIES).
InitialDefaults == [i \in 1..Len(ShippedDefaults) |-> DefaultObject(ShippedDefaults[i])]

InitialCategories == updateMixedCategory(InitialDefaults)

\* JSON.stringify of one category: the object's own properties, no identity.
Stringify(e) ==
    [key |-> e.key, emoji |-> e.emoji, name |-> e.name, words |-> e.words,
     isCustom |-> e.isCustom]

\* JSON.parse of one category: a fresh object with a fresh array.
Parse(j) ==
    [key |-> j.key, emoji |-> j.emoji, name |-> j.name, words |-> j.words,
     isCustom |-> j.isCustom, ref |-> "own"]

\* Values of the storage key: absent, a text JSON.parse rejects, or a JSON
\* object whose properties are `val`.
NoBlob == [kind |-> "null", val |-> <<>>]

NotJson == [kind |-> "text", val |-> <<>>]

JsonBlob(entries) == [kind |-> "json", val |-> entries]

\* A stored object with an entry that has no string emoji.
BadShapeBlob ==
    JsonBlob(<< [key |-> "fiesta", emoji |-> UNDEFINED, name |-> "Fiesta",
                 words |-> <<"Globo">>, isCustom |-> TRUE] >>)

isValidCategory(c) == c.emoji # UNDEFINED /\ c.name # UNDEFINED

isValidCategories(data) == \A i \in 1..Len(data) : isValidCategory(data[i])

\* safeJsonParse(saved, isValidCategories) returns an object (not null).
ParsesValid(saved) == saved.kind = "json" /\ isValidCategories(saved.val)

\* The differential set saveCustomCategories serialises.
customCategoriesOf(cats, defaults) ==
    LET keep(e) ==
            /\ e.key # "mixta"
            /\ \/ ~Has(defaults, e.key)
               \/ e.isCustom
               \/ e.words # Get(defaults, e.key).words
               \/ e.name # Get(defaults, e.key).name
               \/ e.emoji # Get(defaults, e.key).emoji
        out(e) ==
            IF ~Has(defaults, e.key) \/ e.isCustom
            THEN Stringify([e EXCEPT !.isCustom = TRUE])
            ELSE Stringify(e)
        kept == SelectSeq(cats, keep)
    IN  JsonBlob([i \in 1..Len(kept) |-> out(kept[i])])

isCategoryModified(key) ==
    IF key = "mixta" THEN FALSE
    ELSE IF ~Has(DEFAULT_CATEGORIES, key) THEN TRUE
    ELSE \/ Get(CATEGORIES, key).words # Get(DEFAULT_CATEGORIES, key).words
         \/ Get(CATEGORIES, key).name # Get(DEFAULT_CATEGORIES, key).name
         \/ Get(CATEGORIES, key).emoji # Get(DEFAULT_CATEGORIES, key).emoji

\* Writes that reach the object or the array DEFAULT_CATEGORIES holds.
\* CATEGORIES[key].words.push(word): the array is changed in place.
DefaultsAfterPush(defaults, e, word) ==
    IF e.ref \in {"default", "array"}
    THEN Put(defaults, [Get(defaults, e.key) EXCEPT !.words = Append(@, word)])
    ELSE defaults

\* CATEGORIES[key].words = ...: the property of the object is assigned.
DefaultsAfterAssign(defaults, e, words) ==
    IF e.ref = "default"
    THEN Put(defaults, [Get(defaults, e.key) EXCEPT !.words = words])
    ELSE defaults

\* An object assigned a new array no longer shares the default's array.
RefAfterAssign(e) == IF e.ref = "default" THEN "default" ELSE "own"

\* { ...object }: a new object with the same words array.
RefOfCopy(e) == IF e.ref = "own" THEN "own" ELSE "array"

----------------------------------------------------------------------------
(* Random source                                                           *)

\* secureRandom(max): randomValue % max on the secure path and
\* Math.floor(Math.random() * max) on the fallback; for max > 0 either is some
\* integer of [0, max).
\* Mutant of secureRandom: getRandomBytesAsync is awaited without withTimeout
\* and never settles, so no value is ever returned.
secureRandomNoTimeout(max) == {}

secureRandom(max) == 0..(max - 1)

----------------------------------------------------------------------------
(* startNewGame                                                            *)

\* The roster the players are taken from, in entry order.
Roster == <<"Ana", "Bea", "Cid", "Dan", "Eva", "Fay">>

\* Mutant of AvailableIndices: the pool is not filtered by `exclude`.
AvailableIndicesUnfiltered(max, exclude) == [i \in 1..max |-> i - 1]

\* Array.from({ length: max }, (_, i) => i).filter(i => !exclude.includes(i))
AvailableIndices(max, exclude) ==
    SelectSeq([i \in 1..max |-> i - 1], LAMBDA i : ~Includes(exclude, i))

\* Mutant of Splice: the drawn index stays in the pool.
SpliceNothing(arr, pos) == arr

\* available.splice(randomPos, 1)
Splice(arr, pos) ==
    [i \in 1..(Len(arr) - 1) |-> IF i <= pos THEN arr[i] ELSE arr[i + 1]]

\* The loop of selectUniqueIndices from iteration i on: every array of indices
\* it can return, one for each sequence of draws.
RECURSIVE SelectLoop(_, _, _, _)
SelectLoop(i, count, pool, indices) ==
    IF i < count /\ Len(pool) > 0
    THEN UNION {SelectLoop(i + 1, count, Splice(pool, randomPos),
                           Append(indices, pool[randomPos + 1])) :
                    randomPos \in secureRandom(Len(pool))}
    ELSE {indices}

\* Mutant of selectUniqueIndices: the pool is built without `exclude`.
selectUniqueIndicesAll(count, max, exclude) ==
    SelectLoop(0, count, AvailableIndices(max, <<>>), <<>>)

\* selectUniqueIndices(count, max, exclude): the arrays it can return.
selectUniqueIndices(count, max, exclude) ==
    SelectLoop(0, count, AvailableIndices(max, exclude), <<>>)

\* Mutant of Swap: shuffled[i] = shuffled[j] alone, the other half of the
\* exchange is lost.
SwapOverwrite(arr, i, j) ==
    [k \in 1..Len(arr) |-> IF k = i + 1 THEN arr[j + 1] ELSE arr[k]]

\* [shuffled[i], shuffled[j]] = [shuffled[j], shuffled[i]]
Swap(arr, i, j) ==
    [k \in 1..Len(arr) |->
        IF k = i + 1 THEN arr[j + 1] ELSE IF k = j + 1 THEN arr[i + 1] ELSE arr[k]]

\* Mutant of PartnerIndex: find takes the first impostor index, the record's
\* own included.
PartnerIndexFirst(indices, index) == IF indices = <<>> THEN -1 ELSE Head(indices)

\* impostorIndices.find(i => i !== index): the first other impostor index, or
\* -1 when find returns undefined.
PartnerIndex(indices, index) ==
    LET others == SelectSeq(indices, LAMBDA i : i # index)
    IN  IF others = <<>> THEN -1 ELSE Head(others)

\* Mutant of RoleOf: the partner is added without looking at the variant.
RoleOfPartnerAlways(index, shuffled, indices, jester, cfg) ==
    IF Includes(indices, index)
    THEN [role |-> "impostor", knowsWord |-> FALSE,
          partnerName |->
              IF PartnerIndex(indices, index) # -1
              THEN shuffled[PartnerIndex(indices, index) + 1]
              ELSE UNDEFINED]
    ELSE IF index = jester
    THEN [role |-> "jester", knowsWord |-> TRUE, partnerName |-> UNDEFINED]
    ELSE [role |-> "citizen", knowsWord |-> TRUE, partnerName |-> UNDEFINED]

\* The callback of shuffledPlayers.map in startNewGame.
RoleOf(index, shuffled, indices, jester, cfg) ==
    IF Includes(indices, index)
    THEN [role |-> "impostor", knowsWord |-> FALSE,
          partnerName |->
              IF cfg.impostorsKnowEachOther /\ cfg.impostorCount > 1
                 /\ PartnerIndex(indices, index) # -1
              THEN shuffled[PartnerIndex(indices, index) + 1]
              ELSE UNDEFINED]
    ELSE IF index = jester
    THEN [role |-> "jester", knowsWord |-> TRUE, partnerName |-> UNDEFINED]
    ELSE [role |-> "citizen", knowsWord |-> TRUE, partnerName |-> UNDEFINED]

BuildPlayerRoles(shuffled, indices, jester, cfg) ==
    [k \in 1..Len(shuffled) |-> RoleOf(k - 1, shuffled, indices, jester, cfg)]

\* CATEGORIES[category]?.words || CATEGORIES.mixta.words
ResolveWords(cats, key) ==
    IF Has(cats, key) THEN Get(cats, key).words ELSE Get(cats, "mixta").words

\* The call: the arguments are bound, shuffleArray copies the array and its
\* loop starts at the last index.
StartNewGame(ps, cat, v) ==
    /\ pc = "idle"
    /\ players' = ps
    /\ category' = cat
    /\ variant' = v
    /\ shuffledPlayers' = ps
    /\ loopI' = Len(ps) - 1
    /\ available' = <<>>
    /\ impostorIndices' = <<>>
    /\ jesterIndex' = -1
    /\ playerRoles' = <<>>
    /\ secretWord' = UNDEFINED
    /\ starterPlayer' = UNDEFINED
    /\ pc' = "shuffle"
    /\ UNCHANGED <<storeVars, gameVars, uiVars>>

\* One iteration of shuffleArray's loop: a draw, then the swap.
ShuffleStep ==
    /\ pc = "shuffle"
    /\ loopI > 0
    /\ \E j \in secureRandom(loopI + 1) :
           shuffledPlayers' = Swap(shuffledPlayers, loopI, j)
    /\ loopI' = loopI - 1
    /\ UNCHANGED <<pc, variant, players, category, available, impostorIndices,
                   jesterIndex, playerRoles, secretWord, starterPlayer>>
    /\ UNCHANGED <<storeVars, gameVars, uiVars>>

\* shuffleArray returns; selectUniqueIndices(impostorCount, playerCount) builds
\* its pool.
ShuffleReturn ==
    /\ pc = "shuffle"
    /\ loopI <= 0
    /\ available' = AvailableIndices(Len(shuffledPlayers), <<>>)
    /\ loopI' = 0
    /\ pc' = "impostors"
    /\ UNCHANGED <<variant, players, category, shuffledPlayers, impostorIndices,
                   jesterIndex, playerRoles, secretWord, starterPlayer>>
    /\ UNCHANGED <<storeVars, gameVars, uiVars>>

\* One iteration of selectUniqueIndices for the impostors.
SelectImpostorStep ==
    /\ pc = "impostors"
    /\ loopI < GAME_VARIANTS[variant].impostorCount
    /\ Len(available) > 0
    /\ \E randomPos \in secureRandom(Len(available)) :
           /\ impostorIndices' = Append(impostorIndices, available[randomPos + 1])
           /\ available' = Splice(available, randomPos)
    /\ loopI' = loopI + 1
    /\ UNCHANGED <<pc, variant, players, category, shuffledPlayers, jesterIndex,
                   playerRoles, secretWord, starterPlayer>>
    /\ UNCHANGED <<storeVars, gameVars, uiVars>>

\* The roles are built and the word list is resolved; shared by the two ways
\* the selection of roles ends.
RolesAndWords(jester) ==
    /\ jesterIndex' = jester
    /\ playerRoles' = BuildPlayerRoles(shuffledPlayers, impostorIndices, jester,
                                       GAME_VARIANTS[variant])
    /\ pc' = "word"

\* The impostors are selected.  With a jester the second selectUniqueIndices
\* builds its pool without them; without one the roles are built at once.
SelectImpostorsReturn ==
    /\ pc = "impostors"
    /\ ~(loopI < GAME_VARIANTS[variant].impostorCount /\ Len(available) > 0)
    /\ IF GAME_VARIANTS[variant].hasJester
       THEN /\ available' = AvailableIndices(Len(shuffledPlayers), impostorIndices)
            /\ pc' = "jester"
            /\ UNCHANGED <<jesterIndex, playerRoles>>
       ELSE /\ RolesAndWords(-1)
            /\ UNCHANGED available
    /\ loopI' = 0
    /\ UNCHANGED <<variant, players, category, shuffledPlayers, impostorIndices,
                   secretWord, starterPlayer>>
    /\ UNCHANGED <<storeVars, gameVars, uiVars>>

\* selectUniqueIndices(1, playerCount, impostorIndices): its single draw, or
\* none when the pool is empty (jesterIndices[0] ?? -1).
SelectJester ==
    /\ pc = "jester"
    /\ IF Len(available) > 0
       THEN \E randomPos \in secureRandom(Len(available)) :
                /\ RolesAndWords(available[randomPos + 1])
                /\ available' = Splice(available, randomPos)
       ELSE /\ RolesAndWords(-1)
            /\ UNCHANGED available
    /\ UNCHANGED <<variant, players, category, shuffledPlayers, loopI,
                   impostorIndices, secretWord, starterPlayer>>
    /\ UNCHANGED <<storeVars, gameVars, uiVars>>

\* words[await secureRandom(words.length)]
SelectWord ==
    /\ pc = "word"
    /\ LET words == ResolveWords(CATEGORIES, category)
       IN  IF Len(words) > 0
           THEN \E wordIndex \in secureRandom(Len(words)) :
                    secretWord' = words[wordIndex + 1]
           ELSE secretWord' = UNDEFINED
    /\ pc' = "starter"
    /\ UNCHANGED <<variant, players, category, shuffledPlayers, loopI, available,
                   impostorIndices, jesterIndex, playerRoles, starterPlayer>>
    /\ UNCHANGED <<storeVars, gameVars, uiVars>>

\* shuffledPlayers[await secureRandom(playerCount)], and the round is returned.
SelectStarter ==
    /\ pc = "starter"
    /\ IF Len(shuffledPlayers) > 0
       THEN \E starterIndex \in secureRandom(Len(shuffledPlayers)) :
                starterPlayer' = shuffledPlayers[starterIndex + 1]
       ELSE starterPlayer' = UNDEFINED
    /\ pc' = "done"
    /\ UNCHANGED <<variant, players, category, shuffledPlayers, loopI, available,
                   impostorIndices, jesterIndex, playerRoles, secretWord>>
    /\ UNCHANGED <<storeVars, gameVars, uiVars>>

----------------------------------------------------------------------------
(* Category operations                                                     *)

\* Most storage requests that may be in flight at once.
MaxPending == 2

\* Most category operations called in one run.
MaxCalls == 4

Called ==
    /\ calls < MaxCalls
    /\ calls' = calls + 1

\* Arguments the operations are called with: the reserved key, a built-in
\* key, a key that becomes a custom category, and a key that never exists.
OpKeys == {"mixta", "lugares", "fiesta", "nokey"}
BuiltinOpKeys == {"mixta", "lugares", "nokey"}
NewKeys == {"mixta", "lugares", "fiesta"}
AddWords == {"Zeta"}
RemoveWords == {"Avion", "Zeta"}
WordLists == {<<"Avion", "Playa">>}
NewWordLists == {<<>>}
MetaUpdates == {[name |-> "Otro", emoji |-> UNDEFINED],
                [name |-> UNDEFINED, emoji |-> "e-otro"]}


\* Mutant of SaveRequest: the differential set is serialised before the
\* operation changes the set.
SaveRequestStale(cats, defaults) ==
    [op |-> "set", val |-> customCategoriesOf(CATEGORIES, defaults), by |-> "save"]

\* saveCustomCategories up to its await: the differential set of the current
\* state is serialised and handed to AsyncStorage.setItem.
SaveRequest(cats, defaults) ==
    [op |-> "set", val |-> customCategoriesOf(cats, defaults), by |-> "save"]

\* The operation changed the set and called saveCustomCategories.
Commit(cats, defaults, op, result) ==
    /\ Called
    /\ Len(pending) < MaxPending
    /\ CATEGORIES' = cats
    /\ DEFAULT_CATEGORIES' = defaults
    /\ pending' = Append(pending, SaveRequest(cats, defaults))
    /\ lastOp' = op
    /\ lastResult' = result
    /\ UNCHANGED <<store, loadPc, resetPc>>
    /\ UNCHANGED <<roundVars, gameVars, uiVars>>

\* The operation returned early.
Refuse(op, result) ==
    /\ Called
    /\ lastOp' = op
    /\ lastResult' = result
    /\ UNCHANGED <<DEFAULT_CATEGORIES, CATEGORIES, store, pending, loadPc, resetPc>>
    /\ UNCHANGED <<roundVars, gameVars, uiVars>>

UpdateCategoryWords(key, words) ==
    IF key # "mixta" /\ Has(CATEGORIES, key)
    THEN LET e == Get(CATEGORIES, key)
         IN  Commit(updateMixedCategory(
                        Put(CATEGORIES, [e EXCEPT !.words = words, !.ref = "own"])),
                    DEFAULT_CATEGORIES,
                    "updateCategoryWords", "void")
    ELSE Refuse("updateCategoryWords", "void")

\* Mutant of AddWordToCategory: the word is pushed without the includes check.
AddWordToCategoryAlways(key, word) ==
    IF key # "mixta" /\ Has(CATEGORIES, key)
    THEN LET e == Get(CATEGORIES, key)
         IN  Commit(updateMixedCategory(
                        Put(CATEGORIES, [e EXCEPT !.words = Append(@, word)])),
                    DefaultsAfterPush(DEFAULT_CATEGORIES, e, word),
                    "addWordToCategory", "void")
    ELSE Refuse("addWordToCategory", "void")

AddWordToCategory(key, word) ==
    IF key # "mixta" /\ Has(CATEGORIES, key)
       /\ ~Includes(Get(CATEGORIES, key).words, word)
    THEN LET e == Get(CATEGORIES, key)
         IN  Commit(updateMixedCategory(
                        Put(CATEGORIES, [e EXCEPT !.words = Append(@, word)])),
                    DefaultsAfterPush(DEFAULT_CATEGORIES, e, word),
                    "addWordToCategory", "void")
    ELSE Refuse("addWordToCategory", "void")

RemoveWordFromCategory(key, word) ==
    IF key # "mixta" /\ Has(CATEGORIES, key)
    THEN LET e == Get(CATEGORIES, key)
             words == Filter(e.words, word)
         IN  Commit(updateMixedCategory(
                        Put(CATEGORIES,
                            [e EXCEPT !.words = words, !.ref = RefAfterAssign(e)])),
                    DefaultsAfterAssign(DEFAULT_CATEGORIES, e, words),
                    "removeWordFromCategory", "void")
    ELSE Refuse("removeWordFromCategory", "void")

\* Mutant of CreateCategory: an existing key is overwritten.
CreateCategoryOverwrite(key, name, emoji, words) ==
    Commit(updateMixedCategory(
               Put(CATEGORIES,
                   [key |-> key, emoji |-> emoji, name |-> name,
                    words |-> words, isCustom |-> TRUE, ref |-> "own"])),
           DEFAULT_CATEGORIES,
           "createCategory", "true")

\* if (CATEGORIES[key]) return false; otherwise the category is added with
\* isCustom: true.
CreateCategory(key, name, emoji, words) ==
    IF Has(CATEGORIES, key)
    THEN Refuse("createCategory", "false")
    ELSE Commit(updateMixedCategory(
                    Put(CATEGORIES,
                        [key |-> key, emoji |-> emoji, name |-> name,
                         words |-> words, isCustom |-> TRUE, ref |-> "own"])),
                DEFAULT_CATEGORIES,
                "createCategory", "true")

\* Mutant of DeleteCategory: isCustom is not looked at.
DeleteCategoryAny(key) ==
    IF key = "mixta" \/ ~Has(CATEGORIES, key)
    THEN Refuse("deleteCategory", "false")
    ELSE Commit(updateMixedCategory(Delete(CATEGORIES, key)),
                DEFAULT_CATEGORIES,
                "deleteCategory", "true")

\* if (key === 'mixta' || !CATEGORIES[key]?.isCustom) return false
DeleteCategory(key) ==
    IF key = "mixta" \/ ~Has(CATEGORIES, key) \/ ~Get(CATEGORIES, key).isCustom
    THEN Refuse("deleteCategory", "false")
    ELSE Commit(updateMixedCategory(Delete(CATEGORIES, key)),
                DEFAULT_CATEGORIES,
                "deleteCategory", "true")

\* { ...CATEGORIES[key], ...updates }; 'mixta' is not recomputed here.
UpdateCategoryMeta(key, updates) ==
    IF key # "mixta" /\ Has(CATEGORIES, key)
    THEN LET e == Get(CATEGORIES, key)
         IN  Commit(Put(CATEGORIES,
                        [e EXCEPT
                           !.name = IF updates.name # UNDEFINED THEN updates.name ELSE @,
                           !.emoji = IF updates.emoji # UNDEFINED THEN updates.emoji ELSE @,
                           !.ref = RefOfCopy(e)]),
                    DEFAULT_CATEGORIES,
                    "updateCategoryMeta", "void")
    ELSE Refuse("updateCategoryMeta", "void")

\* CATEGORIES[key] = { ...DEFAULT_CATEGORIES[key] }
ResetCategoryToDefault(key) ==
    IF key = "mixta" \/ ~Has(DEFAULT_CATEGORIES, key)
    THEN Refuse("resetCategoryToDefault", "void")
    ELSE Commit(updateMixedCategory(
                    Put(CATEGORIES,
                        [Get(DEFAULT_CATEGORIES, key) EXCEPT !.ref = "array"])),
                DEFAULT_CATEGORIES,
                "resetCategoryToDefault", "void")

----------------------------------------------------------------------------
(* Loading, resetting, and the storage boundary                            *)

RemoveRequest(by) == [op |-> "remove", val |-> NoBlob, by |-> by]

RemoveAt(q, i) == [k \in 1..(Len(q) - 1) |-> IF k < i THEN q[k] ELSE q[k + 1]]

\* The request is no longer awaited: withTimeout resolved with its fallback
\* and the request stays in flight.
Orphan(q, i) == [q EXCEPT ![i].by = "none"]

ParseAll(val) == [i \in 1..Len(val) |-> Parse(val[i])]

\* loadCustomCategories is called and awaits safeStorageGet.
LoadCall ==
    /\ Called
    /\ loadPc = "idle"
    /\ loadPc' = "get"
    /\ UNCHANGED <<DEFAULT_CATEGORIES, CATEGORIES, store, pending, resetPc, lastOp,
                   lastResult>>
    /\ UNCHANGED <<roundVars, gameVars, uiVars>>

\* safeStorageGet resolves, with the stored value or with null (the read was
\* rejected or timed out), and loadCustomCategories runs to its next await:
\* the removal of an invalid blob, or persistLogs once the set is assigned.
LoadGetResolve ==
    /\ loadPc = "get"
    /\ \E saved \in {store, NoBlob} :
         IF ParsesValid(saved)
         THEN /\ CATEGORIES' = updateMixedCategory(
                                   Spread(DEFAULT_CATEGORIES, ParseAll(saved.val)))
              /\ loadPc' = "logs"
              /\ UNCHANGED pending
         ELSE IF saved # NoBlob
         THEN /\ Len(pending) < MaxPending
              /\ pending' = Append(pending, RemoveRequest("load"))
              /\ loadPc' = "remove"
              /\ UNCHANGED CATEGORIES
         ELSE /\ CATEGORIES' = updateMixedCategory(DEFAULT_CATEGORIES)
              /\ loadPc' = "logs"
              /\ UNCHANGED pending
    /\ UNCHANGED <<DEFAULT_CATEGORIES, store, resetPc, lastOp, lastResult, calls>>
    /\ UNCHANGED <<roundVars, gameVars, uiVars>>

\* How an awaited removal ends: done, rejected, or timed out.
RemovalOutcome(i, outcome) ==
    CASE outcome = "done" -> /\ store' = NoBlob
                             /\ pending' = RemoveAt(pending, i)
      [] outcome = "rejected" -> /\ UNCHANGED store
                                 /\ pending' = RemoveAt(pending, i)
      [] outcome = "timeout" -> /\ UNCHANGED store
                                /\ pending' = Orphan(pending, i)

\* safeStorageRemove of the invalid blob resolves, the defaults are used and
\* persistLogs is awaited.
LoadRemoveResolve ==
    /\ loadPc = "remove"
    /\ \E i \in 1..Len(pending), outcome \in {"done", "rejected", "timeout"} :
           /\ pending[i].by = "load"
           /\ RemovalOutcome(i, outcome)
    /\ CATEGORIES' = updateMixedCategory(DEFAULT_CATEGORIES)
    /\ loadPc' = "logs"
    /\ UNCHANGED <<DEFAULT_CATEGORIES, resetPc, lastOp, lastResult, calls>>
    /\ UNCHANGED <<roundVars, gameVars, uiVars>>

\* persistLogs: AsyncStorage.setItem of the log buffer, awaited with no
\* timeout, settles (its rejection is caught) and loadCustomCategories
\* returns.  The logs live under their own storage key.
LoadPersistLogsSettle ==
    /\ loadPc = "logs"
    /\ loadPc' = "idle"
    /\ lastOp' = "loadCustomCategories"
    /\ UNCHANGED <<DEFAULT_CATEGORIES, CATEGORIES, store, pending, resetPc,
                   lastResult, calls>>
    /\ UNCHANGED <<roundVars, gameVars, uiVars>>

\* resetCategoriesToDefault is called and awaits safeStorageRemove.
ResetCategoriesToDefaultCall ==
    /\ Called
    /\ resetPc = "idle"
    /\ Len(pending) < MaxPending
    /\ pending' = Append(pending, RemoveRequest("resetAll"))
    /\ resetPc' = "remove"
    /\ UNCHANGED <<DEFAULT_CATEGORIES, CATEGORIES, store, loadPc, lastOp, lastResult>>
    /\ UNCHANGED <<roundVars, gameVars, uiVars>>

\* safeStorageRemove resolves (false only when the removal was rejected) and
\* the set is rebuilt from DEFAULT_CATEGORIES.
ResetCategoriesToDefaultResolve ==
    /\ resetPc = "remove"
    /\ \E i \in 1..Len(pending), outcome \in {"done", "rejected", "timeout"} :
           /\ pending[i].by = "resetAll"
           /\ RemovalOutcome(i, outcome)
           /\ lastResult' = IF outcome = "rejected" THEN "false" ELSE "true"
    /\ CATEGORIES' = updateMixedCategory(DEFAULT_CATEGORIES)
    /\ resetPc' = "idle"
    /\ lastOp' = "resetCategoriesToDefault"
    /\ UNCHANGED <<DEFAULT_CATEGORIES, loadPc, calls>>
    /\ UNCHANGED <<roundVars, gameVars, uiVars>>

\* Whether a request nobody awaits takes effect (TRUE) or is rejected (FALSE).
WriteOutcomes == BOOLEAN

\* AsyncStorage completes a request nobody awaits any more: it takes effect
\* or it is rejected.
StorageComplete ==
    /\ \E i \in 1..Len(pending), ok \in WriteOutcomes :
           /\ pending[i].by \in {"save", "none"}
           /\ store' = IF ~ok THEN store
                       ELSE IF pending[i].op = "set" THEN pending[i].val ELSE NoBlob
           /\ pending' = RemoveAt(pending, i)
    /\ UNCHANGED <<DEFAULT_CATEGORIES, CATEGORIES, loadPc, resetPc, lastOp, lastResult,
                   calls>>
    /\ UNCHANGED <<roundVars, gameVars, uiVars>>

----------------------------------------------------------------------------
(* Persistence of the game configuration: saveGameState, loadGameState      *)

(* A state object or a stored configuration is a sequence of entries, a key *)
(* with its JSON value.  A JSON value is a record of its type `t` ("array"  *)
(* of strings, "mixed" array with an element that is not a string,          *)
(* "string", "number") and its `items` (the elements of an array, the one   *)
(* string of a string).                                                     *)
Arr(items) == [t |-> "array", items |-> items]
Str(s) == [t |-> "string", items |-> <<s>>]
Num == [t |-> "number", items |-> <<>>]
MixedArr == [t |-> "mixed", items |-> <<"Ana">>]

Entry(key, value) == [key |-> key, value |-> value]

PERSISTABLE_KEYS == <<"players", "selectedCategory", "selectedVariant">>

\* Mutant of isValidGameState: the elements of players are not looked at.
isValidGameStateLoose(data) ==
    /\ Has(data, "players") => Get(data, "players").value.t \in {"array", "mixed"}
    /\ Has(data, "selectedCategory") => Get(data, "selectedCategory").value.t = "string"
    /\ Has(data, "selectedVariant") => Get(data, "selectedVariant").value.t = "string"

\* if (state.players !== undefined) { Array.isArray, every string } ...
isValidGameState(data) ==
    /\ Has(data, "players") => Get(data, "players").value.t = "array"
    /\ Has(data, "selectedCategory") => Get(data, "selectedCategory").value.t = "string"
    /\ Has(data, "selectedVariant") => Get(data, "selectedVariant").value.t = "string"

\* A stored object whose players is not an array.
BadShapeGame == JsonBlob(<<Entry("players", Num)>>)

\* A stored object whose players holds an element that is not a string.
BadPlayersGame == JsonBlob(<<Entry("players", MixedArr), Entry("selectedCategory", Str("lugares"))>>)

\* A stored object whose selectedVariant is not a string.
BadVariantGame == JsonBlob(<<Entry("players", Arr(<<"Ana">>)), Entry("selectedVariant", Num)>>)

\* safeJsonParse(saved, isValidGameState) returns an object (not null).
GameParsesValid(saved) == saved.kind = "json" /\ isValidGameState(saved.val)

\* The first loop of saveGameState: the persistable fields the state defines.
ConfigToSave(state) ==
    LET keys == SelectSeq(PERSISTABLE_KEYS, LAMBDA k : Has(state, k))
    IN  [i \in 1..Len(keys) |-> Get(state, keys[i])]

\* Mutant of Merged: the existing configuration is not consulted.
MergedOverNothing(config, existing) == config

\* Mutant of Merged: { ...existing, ...config }, whatever keys they hold.
MergedSpread(config, existing) == Spread(existing, config)

\* The second loop: configToSave[key] ?? existing[key], for the persistable
\* keys, undefined values left out.
Merged(config, existing) ==
    LET keys == SelectSeq(PERSISTABLE_KEYS,
                          LAMBDA k : Has(config, k) \/ Has(existing, k))
    IN  [i \in 1..Len(keys) |->
            IF Has(config, keys[i]) THEN Get(config, keys[i])
            ELSE Get(existing, keys[i])]

\* How an awaited write or removal ends: it took effect, it was rejected, or
\* withTimeout resolved first.
AwaitOutcomes == {"done", "rejected", "timeout"}

\* Most saveGameState / loadGameState calls in flight at once.
MaxGameOps == 2

GameSlots == 1..MaxGameOps

\* A slot no call occupies.
\* `removal` records how the removal of an invalid value ended, if the call
\* awaited one.
IdleOp == [pc |-> "idle", kind |-> "none", config |-> <<>>, existing |-> <<>>,
           merged |-> <<>>, result |-> "none", value |-> <<>>, removal |-> "none"]

\* A slot is free when no call occupies it or its call has returned; a new
\* call takes the lowest free slot.
FreeSlot(i) ==
    /\ gameOps[i].pc \in {"idle", "returned"}
    /\ \A j \in GameSlots : j < i => gameOps[j].pc \notin {"idle", "returned"}

\* saveGameState(state) up to the await inside loadGameState.
SaveGameStateCall(i, state) ==
    /\ Called
    /\ FreeSlot(i)
    /\ gameOps' = [gameOps EXCEPT ![i] =
                       [IdleOp EXCEPT !.pc = "read", !.kind = "save",
                                      !.config = ConfigToSave(state)]]
    /\ UNCHANGED <<gameStore, gameOrphans>>
    /\ UNCHANGED <<DEFAULT_CATEGORIES, CATEGORIES, store, pending, loadPc, resetPc,
                   lastOp, lastResult>>
    /\ UNCHANGED <<roundVars, uiVars>>

\* loadGameState() up to its await of safeStorageGet.
LoadGameStateCall(i) ==
    /\ Called
    /\ FreeSlot(i)
    /\ gameOps' = [gameOps EXCEPT ![i] =
                       [IdleOp EXCEPT !.pc = "read", !.kind = "load"]]
    /\ UNCHANGED <<gameStore, gameOrphans>>
    /\ UNCHANGED <<DEFAULT_CATEGORIES, CATEGORIES, store, pending, loadPc, resetPc,
                   lastOp, lastResult>>
    /\ UNCHANGED <<roundVars, uiVars>>

\* loadGameState returns `existing`: to its caller, or to saveGameState, which
\* merges and awaits safeStorageSet.
AfterLoad(op, existing) ==
    IF op.kind = "load"
    THEN [op EXCEPT !.pc = "returned", !.value = existing]
    ELSE [op EXCEPT !.pc = "write", !.existing = existing,
                    !.merged = Merged(op.config, existing)]

\* safeStorageGet resolves with the stored value or with null (the read was
\* rejected or timed out).
GameReadResolve(i, saved) ==
    /\ gameOps[i].pc = "read"
    /\ gameOps' = [gameOps EXCEPT ![i] =
                       IF GameParsesValid(saved) THEN AfterLoad(@, saved.val)
                       ELSE IF saved # NoBlob THEN [@ EXCEPT !.pc = "remove"]
                       ELSE AfterLoad(@, <<>>)]
    /\ UNCHANGED <<gameStore, gameOrphans>>
    /\ UNCHANGED <<storeVars, roundVars, uiVars>>

\* safeStorageRemove of the invalid value resolves: done, rejected, or timed
\* out with the request still in flight; loadGameState returns {}.
GameRemoveResolve(i, outcome) ==
    /\ gameOps[i].pc = "remove"
    /\ gameStore' = IF outcome = "done" THEN NoBlob ELSE gameStore
    /\ IF outcome = "timeout"
       THEN /\ Len(gameOrphans) < MaxPending
            /\ gameOrphans' = Append(gameOrphans, NoBlob)
       ELSE UNCHANGED gameOrphans
    /\ gameOps' = [gameOps EXCEPT ![i] = AfterLoad([@ EXCEPT !.removal = outcome], <<>>)]
    /\ UNCHANGED <<storeVars, roundVars, uiVars>>

\* safeStorageSet: true when setItem resolved and when withTimeout resolved
\* with its fallback, false when setItem was rejected.
SetResult(outcome) == IF outcome = "rejected" THEN "false" ELSE "true"

\* safeStorageSet resolves and saveGameState returns its value.
GameWriteResolve(i, outcome) ==
    /\ gameOps[i].pc = "write"
    /\ gameStore' = IF outcome = "done" THEN JsonBlob(gameOps[i].merged)
                    ELSE gameStore
    /\ IF outcome = "timeout"
       THEN /\ Len(gameOrphans) < MaxPending
            /\ gameOrphans' = Append(gameOrphans, JsonBlob(gameOps[i].merged))
       ELSE UNCHANGED gameOrphans
    /\ gameOps' = [gameOps EXCEPT ![i] =
                       [@ EXCEPT !.pc = "returned", !.result = SetResult(outcome)]]
    /\ UNCHANGED <<storeVars, roundVars, uiVars>>

\* AsyncStorage settles a request on STORAGE_KEY nobody awaits any more: it
\* takes effect or it is rejected.
GameStorageComplete ==
    /\ \E k \in 1..Len(gameOrphans), ok \in WriteOutcomes :
           /\ gameStore' = IF ok THEN gameOrphans[k] ELSE gameStore
           /\ gameOrphans' = RemoveAt(gameOrphans, k)
    /\ UNCHANGED gameOps
    /\ UNCHANGED <<storeVars, roundVars, uiVars>>

----------------------------------------------------------------------------
(* The game screen (src/app/index.tsx)                                     *)

(* The handlers of ImpostorGame that change players, the variant and the    *)
(* screen, and the two that call startNewGame.  The screen follows one      *)
(* startNewGame call at a time; the category stays at the 'mixta' of        *)
(* createInitialState.                                                      *)

\* Most players entered on the setup screen.
MaxUiPlayers == 4

\* addPlayer: the trimmed input is appended unless it is empty or already in
\* the list.  The input is rendered on the setup screen.
AddPlayer(name) ==
    /\ currentScreen = "setup"
    /\ Len(statePlayers) < MaxUiPlayers
    /\ ~Includes(statePlayers, name)
    /\ statePlayers' = Append(statePlayers, name)
    /\ UNCHANGED <<selectedVariant, currentScreen, currentPlayerIndex>>
    /\ UNCHANGED <<storeVars, roundVars, gameVars>>

\* removePlayer(index): prev.players.filter((_, i) => i !== index), from the
\* list rendered on the setup screen.
RemovePlayer(index) ==
    /\ currentScreen = "setup"
    /\ index \in 0..(Len(statePlayers) - 1)
    /\ statePlayers' = Splice(statePlayers, index)
    /\ UNCHANGED <<selectedVariant, currentScreen, currentPlayerIndex>>
    /\ UNCHANGED <<storeVars, roundVars, gameVars>>

\* The variant picker, opened from the setup screen: a variant is taken only
\* when isAvailable (state.players.length >= variant.minPlayers).
SelectVariant(v) ==
    /\ currentScreen = "setup"
    /\ Len(statePlayers) >= GAME_VARIANTS[v].minPlayers
    /\ selectedVariant' = v
    /\ UNCHANGED <<statePlayers, currentScreen, currentPlayerIndex>>
    /\ UNCHANGED <<storeVars, roundVars, gameVars>>

\* handleStartGame up to its await: below minPlayers it alerts and returns,
\* otherwise it calls startNewGame with the state of this render.
HandleStartGame ==
    /\ currentScreen = "setup"
    /\ ~(Len(statePlayers) < GAME_VARIANTS[selectedVariant].minPlayers)
    /\ StartNewGame(statePlayers, "mixta", selectedVariant)

\* handlePlayAgain up to its await, from the playing and the end screen.
HandlePlayAgain ==
    /\ currentScreen \in {"playing", "end"}
    /\ StartNewGame(statePlayers, "mixta", selectedVariant)

\* startNewGame resolved and the handler that awaited it goes on:
\* setState(prev => ({ ...prev, ...gameData, currentPlayerIndex: 0,
\* currentScreen: 'pass' })).
HandleRoundReturned ==
    /\ pc = "done"
    /\ pc' = "idle"
    /\ currentScreen' = "pass"
    /\ currentPlayerIndex' = 0
    /\ UNCHANGED <<statePlayers, selectedVariant>>
    /\ UNCHANGED <<variant, players, category, shuffledPlayers, loopI, available,
                   impostorIndices, jesterIndex, playerRoles, secretWord,
                   starterPlayer>>
    /\ UNCHANGED <<storeVars, gameVars>>

\* handleRevealRole, once its 300 ms timer has fired.
HandleRevealRole ==
    /\ currentScreen = "pass"
    /\ currentScreen' = "reveal"
    /\ UNCHANGED <<statePlayers, selectedVariant, currentPlayerIndex>>
    /\ UNCHANGED <<storeVars, roundVars, gameVars>>

\* handleNextPlayer: the next player's pass screen, or the playing screen
\* after the last player.
HandleNextPlayer ==
    /\ currentScreen = "reveal"
    /\ IF currentPlayerIndex + 1 < Len(shuffledPlayers)
       THEN /\ currentPlayerIndex' = currentPlayerIndex + 1
            /\ currentScreen' = "pass"
       ELSE /\ currentScreen' = "playing"
            /\ UNCHANGED currentPlayerIndex
    /\ UNCHANGED <<statePlayers, selectedVariant>>
    /\ UNCHANGED <<storeVars, roundVars, gameVars>>

HandleEndGame ==
    /\ currentScreen = "playing"
    /\ currentScreen' = "end"
    /\ UNCHANGED <<statePlayers, selectedVariant, currentPlayerIndex>>
    /\ UNCHANGED <<storeVars, roundVars, gameVars>>

HandleBackToSetup ==
    /\ currentScreen = "end"
    /\ currentScreen' = "setup"
    /\ UNCHANGED <<statePlayers, selectedVariant, currentPlayerIndex>>
    /\ UNCHANGED <<storeVars, roundVars, gameVars>>

----------------------------------------------------------------------------
(* Specifications                                                          *)

\* Values the storage key may hold when the process starts.
InitialStores == {NoBlob, NotJson, BadShapeBlob}

InitWith(stores) ==
    /\ DEFAULT_CATEGORIES = InitialDefaults
    /\ CATEGORIES = InitialCategories
    /\ store \in stores
    /\ pending = <<>>
    /\ loadPc = "idle"
    /\ resetPc = "idle"
    /\ lastOp = "init"
    /\ lastResult = "void"
    /\ calls = 0
    /\ pc = "idle"
    /\ variant = "classic"
    /\ players = <<>>
    /\ category = "mixta"
    /\ shuffledPlayers = <<>>
    /\ loopI = 0
    /\ available = <<>>
    /\ impostorIndices = <<>>
    /\ jesterIndex = -1
    /\ playerRoles = <<>>
    /\ secretWord = UNDEFINED
    /\ starterPlayer = UNDEFINED
    /\ gameOps = [i \in GameSlots |-> IdleOp]
    /\ gameOrphans = <<>>
    /\ statePlayers = <<>>
    /\ selectedVariant = "classic"
    /\ currentScreen = "setup"
    /\ currentPlayerIndex = 0

Init == InitWith(InitialStores) /\ gameStore = NoBlob

\* The category store with its persistence.
Next ==
    \/ LoadCall
    \/ LoadGetResolve
    \/ LoadRemoveResolve
    \/ LoadPersistLogsSettle
    \/ \E key \in BuiltinOpKeys, words \in WordLists : UpdateCategoryWords(key, words)
    \/ \E key \in OpKeys, word \in AddWords : AddWordToCategory(key, word)
    \/ \E key \in OpKeys, word \in RemoveWords : RemoveWordFromCategory(key, word)
    \/ \E key \in NewKeys, words \in NewWordLists :
           CreateCategory(key, "Fiesta", "e-fiesta", words)
    \/ \E key \in OpKeys : DeleteCategory(key)
    \/ \E key \in BuiltinOpKeys, updates \in MetaUpdates :
           UpdateCategoryMeta(key, updates)
    \/ \E key \in OpKeys : ResetCategoryToDefault(key)
    \/ ResetCategoriesToDefaultCall
    \/ ResetCategoriesToDefaultResolve
    \/ StorageComplete

Spec == Init /\ [][Next]_vars

\* The category store where every await that withTimeout bounds ends and the
\* storage settles the requests nobody awaits; nothing bounds the await of
\* persistLogs.
SpecLive ==
    /\ Init
    /\ [][Next]_vars
    /\ WF_vars(LoadGetResolve)
    /\ WF_vars(LoadRemoveResolve)
    /\ WF_vars(ResetCategoriesToDefaultResolve)
    /\ WF_vars(StorageComplete)

\* States handed to saveGameState: the whole configuration, one field of it,
\* and a state in the middle of a round.
FullConfig ==
    << Entry("players", Arr(<<"Ana", "Bea", "Cid">>)),
       Entry("selectedCategory", Str("animales")),
       Entry("selectedVariant", Str("classic")) >>

PartialConfig == << Entry("selectedCategory", Str("lugares")) >>

RoundState ==
    << Entry("currentScreen", Str("playing")),
       Entry("players", Arr(<<"Dan", "Eva", "Fay">>)),
       Entry("shuffledPlayers", Arr(<<"Eva", "Fay", "Dan">>)),
       Entry("impostorIndices", MixedArr),
       Entry("secretWord", Str("Playa")) >>

SavedStates == {FullConfig, PartialConfig, RoundState}

\* The blob an earlier version of saveGameState wrote under the same key: the
\* whole state, round fields included.
OlderVersionBlob ==
    JsonBlob(<< Entry("players", Arr(<<"Dan">>)),
                Entry("selectedVariant", Str("jester")),
                Entry("secretWord", Str("Carro")),
                Entry("currentScreen", Str("reveal")) >>)

\* Values STORAGE_KEY may hold when the process starts.
InitialGameStores ==
    {NoBlob, NotJson, BadShapeGame, BadPlayersGame, BadVariantGame, OlderVersionBlob}

\* The persistence of the game configuration.
NextGame ==
    \/ \E i \in GameSlots, state \in SavedStates : SaveGameStateCall(i, state)
    \/ \E i \in GameSlots : LoadGameStateCall(i)
    \/ \E i \in GameSlots, saved \in {gameStore, NoBlob} : GameReadResolve(i, saved)
    \/ \E i \in GameSlots, outcome \in AwaitOutcomes : GameRemoveResolve(i, outcome)
    \/ \E i \in GameSlots, outcome \in AwaitOutcomes : GameWriteResolve(i, outcome)
    \/ GameStorageComplete

InitGame == InitWith({NoBlob}) /\ gameStore \in InitialGameStores

SpecGame == InitGame /\ [][NextGame]_vars

\* One round assignment over the shipped categories.
NextRound ==
    \/ \E v \in DOMAIN GAME_VARIANTS, n \in 2..Len(Roster) :
           StartNewGame(SubSeq(Roster, 1, n), "lugares", v)
    \/ ShuffleStep
    \/ ShuffleReturn
    \/ SelectImpostorStep
    \/ SelectImpostorsReturn
    \/ SelectJester
    \/ SelectWord
    \/ SelectStarter

InitRound == InitWith({NoBlob}) /\ gameStore = NoBlob

SpecRound == InitRound /\ [][NextRound]_vars

\* Arrays handed to shuffleArray: every array of at most MaxShuffleLen of
\* three names, the empty one, the single-element ones and those that hold a
\* name more than once included.
MaxShuffleLen == 4

ShuffleInputs ==
    UNION {[1..n -> {"Ana", "Bea", "Cid"}] : n \in 0..MaxShuffleLen}

\* shuffleArray as startNewGame calls it, up to its return.
NextShuffle ==
    \/ \E ps \in ShuffleInputs : StartNewGame(ps, "lugares", "classic")
    \/ ShuffleStep
    \/ ShuffleReturn

SpecShuffle == InitRound /\ [][NextShuffle]_vars

\* Arguments selectUniqueIndices is applied to: count up to MaxSelectCount,
\* max up to MaxSelectMax, and exclusion arrays of at most two entries, which
\* may repeat an index or name one outside [0, max).
MaxSelectCount == 3

MaxSelectMax == 4

ExcludeLists == UNION {[1..n -> 0..MaxSelectMax] : n \in 0..2}

\* The selections of a round from a single player on, so that a selection can
\* ask for more indices than its pool holds.
NextSelect ==
    \/ \E v \in DOMAIN GAME_VARIANTS, n \in 1..MaxSelectMax :
           StartNewGame(SubSeq(Roster, 1, n), "lugares", v)
    \/ ShuffleStep
    \/ ShuffleReturn
    \/ SelectImpostorStep
    \/ SelectImpostorsReturn
    \/ SelectJester

SpecSelect == InitRound /\ [][NextSelect]_vars

\* The game screen: players are entered in the order of the roster and the
\* last one entered can be removed again.
NextScreen ==
    \/ AddPlayer(Roster[Min(Len(statePlayers) + 1, Len(Roster))])
    \/ RemovePlayer(Len(statePlayers) - 1)
    \/ \E v \in DOMAIN GAME_VARIANTS : SelectVariant(v)
    \/ HandleStartGame
    \/ HandlePlayAgain
    \/ HandleRoundReturned
    \/ HandleRevealRole
    \/ HandleNextPlayer
    \/ HandleEndGame
    \/ HandleBackToSetup
    \/ ShuffleStep
    \/ ShuffleReturn
    \/ SelectImpostorStep
    \/ SelectImpostorsReturn
    \/ SelectJester
    \/ SelectWord
    \/ SelectStarter

SpecScreen == InitRound /\ [][NextScreen]_vars

\* Most players of a round whose completion is followed.
MaxLivePlayers == 5

NextRoundLive ==
    \/ \E v \in DOMAIN GAME_VARIANTS, n \in 2..MaxLivePlayers :
           StartNewGame(SubSeq(Roster, 1, n), "lugares", v)
    \/ ShuffleStep
    \/ ShuffleReturn
    \/ SelectImpostorStep
    \/ SelectImpostorsReturn
    \/ SelectJester
    \/ SelectWord
    \/ SelectStarter

\* The round assignment where every await of startNewGame ends: each one is a
\* secureRandom draw, which withTimeout resolves after 2000 ms at the latest
\* and whose rejection is caught.
SpecRoundLive ==
    /\ InitRound
    /\ [][NextRoundLive]_vars
    /\ WF_vars(ShuffleStep)
    /\ WF_vars(ShuffleReturn)
    /\ WF_vars(SelectImpostorStep)
    /\ WF_vars(SelectImpostorsReturn)
    /\ WF_vars(SelectJester)
    /\ WF_vars(SelectWord)
    /\ WF_vars(SelectStarter)

\* Round assignments while custom categories are created and filled: the
\* settings screen calls createCategory(key, name, emoji), which leaves the
\* word list at its default [].
NextWords ==
    \/ CreateCategory("fiesta", "Fiesta", "e-fiesta", <<>>)
    \/ \E word \in AddWords : AddWordToCategory("fiesta", word)
    \/ StorageComplete
    \/ \E v \in {"classic", "jester"}, cat \in {"lugares", "fiesta", "nokey"} :
           StartNewGame(SubSeq(Roster, 1, 3), cat, v)
    \/ ShuffleStep
    \/ ShuffleReturn
    \/ SelectImpostorStep
    \/ SelectImpostorsReturn
    \/ SelectJester
    \/ SelectWord
    \/ SelectStarter

SpecWords == InitRound /\ [][NextWords]_vars

\* Mutating operations called one after the other while the store completes
\* their writes in any order.
NextWrites ==
    \/ \E key \in OpKeys, word \in AddWords : AddWordToCategory(key, word)
    \/ \E key \in OpKeys, word \in RemoveWords : RemoveWordFromCategory(key, word)
    \/ \E key \in NewKeys, words \in NewWordLists :
           CreateCategory(key, "Fiesta", "e-fiesta", words)
    \/ \E key \in OpKeys : DeleteCategory(key)
    \/ StorageComplete

SpecWrites == InitRound /\ [][NextWrites]_vars

----------------------------------------------------------------------------
(* Properties of the round startNewGame returns                            *)

Returned == pc = "done"

\* The caller's precondition: players.length >= variant.minPlayers.
EnoughPlayers == Len(players) >= GAME_VARIANTS[variant].minPlayers

IndicesWithRole(r) == {i \in 0..(Len(playerRoles) - 1) : playerRoles[i + 1].role = r}

\* C1: for every variant and every list of distinct names with at least
\* minPlayers entries, the returned round has one record per player, exactly
\* impostorCount impostors, exactly one jester when the variant has a jester and
\* none otherwise, citizens everywhere else, and knowsWord false exactly for
\* the impostors.
C1_RoleCounts ==
    (Returned /\ EnoughPlayers) =>
        /\ Len(playerRoles) = Len(players)
        /\ Cardinality(IndicesWithRole("impostor")) = GAME_VARIANTS[variant].impostorCount
        /\ Cardinality(IndicesWithRole("jester")) =
               (IF GAME_VARIANTS[variant].hasJester THEN 1 ELSE 0)
        /\ \A i \in 0..(Len(playerRoles) - 1) :
               /\ playerRoles[i + 1].role \in {"impostor", "jester", "citizen"}
               /\ (playerRoles[i + 1].knowsWord = FALSE)
                      <=> (playerRoles[i + 1].role = "impostor")

C1_Witness ==
    /\ Returned
    /\ variant = "jester"
    /\ Len(players) = 4
    /\ Cardinality(IndicesWithRole("jester")) = 1
    /\ Cardinality(IndicesWithRole("citizen")) = 2

\* C2: with at least minPlayers players, impostorIndices holds impostorCount
\* pairwise distinct indices of [0, n); jesterIndex is -1 without a jester and
\* otherwise an index of [0, n) outside impostorIndices; a record is an
\* impostor iff its index is in impostorIndices and a jester iff its index is
\* jesterIndex; chaos with 6 players gives 2 impostors, 1 jester, 3 citizens.
C2_Indices ==
    (Returned /\ EnoughPlayers) =>
        LET n == Len(players)
            cfg == GAME_VARIANTS[variant]
        IN  /\ Len(impostorIndices) = cfg.impostorCount
            /\ \A a, b \in 1..Len(impostorIndices) :
                   a # b => impostorIndices[a] # impostorIndices[b]
            /\ Range(impostorIndices) \subseteq 0..(n - 1)
            /\ ~cfg.hasJester => jesterIndex = -1
            /\ cfg.hasJester =>
                   jesterIndex \in (0..(n - 1)) \ Range(impostorIndices)
            /\ IndicesWithRole("impostor") = Range(impostorIndices)
            /\ IndicesWithRole("jester") = {i \in 0..(n - 1) : i = jesterIndex}
            /\ (variant = "chaos" /\ n = 6) =>
                   /\ Cardinality(IndicesWithRole("impostor")) = 2
                   /\ Cardinality(IndicesWithRole("jester")) = 1
                   /\ Cardinality(IndicesWithRole("citizen")) = 3

C2_Witness ==
    /\ Returned
    /\ variant = "chaos"
    /\ Len(players) = 6
    /\ Len(impostorIndices) = 2
    /\ jesterIndex >= 0
    /\ jesterIndex \notin Range(impostorIndices)

\* C3: in a variant with two impostors who know each other, each impostor's
\* partnerName is the name of the other impostor, so the relation is symmetric
\* and no impostor is its own partner.
C3_Partners ==
    (/\ Returned
     /\ GAME_VARIANTS[variant].impostorCount = 2
     /\ GAME_VARIANTS[variant].impostorsKnowEachOther) =>
        /\ Len(impostorIndices) = 2
        /\ \A a, b \in 1..Len(impostorIndices) :
               a # b =>
                   LET ia == impostorIndices[a]
                       ib == impostorIndices[b]
                   IN  /\ playerRoles[ia + 1].partnerName = shuffledPlayers[ib + 1]
                       /\ playerRoles[ib + 1].partnerName = shuffledPlayers[ia + 1]
                       /\ playerRoles[ia + 1].partnerName # shuffledPlayers[ia + 1]

C3_Witness ==
    /\ Returned
    /\ variant = "accomplices"
    /\ Len(players) = 5
    /\ \E i \in 1..Len(playerRoles) :
           /\ playerRoles[i].role = "impostor"
           /\ playerRoles[i].partnerName \in Range(shuffledPlayers)

----------------------------------------------------------------------------
(* Properties of the category store                                        *)

\* The words, name and emoji of a category are those of `d`.
SameContent(e, d) == e.words = d.words /\ e.name = d.name /\ e.emoji = d.emoji

\* In-memory category `key` of `cats` is custom or differs from what ships.
DiffersFromShipped(cats, key) ==
    \/ ~Has(ShippedDefaults, key)
    \/ Get(cats, key).isCustom
    \/ ~SameContent(Get(cats, key), Get(ShippedDefaults, key))

\* The words of 'mixta' are the word lists of the other categories laid end
\* to end in key order.
MixedIsConcatenation(cats) ==
    LET others == SelectSeq(cats, LAMBDA e : e.key # "mixta")
        Offset[i \in 0..Len(others)] ==
            IF i = 0 THEN 0 ELSE Offset[i - 1] + Len(others[i].words)
        mixed == Get(cats, "mixta").words
    IN  /\ Len(mixed) = Offset[Len(others)]
        /\ \A i \in 1..Len(others) :
               \A j \in 1..Len(others[i].words) :
                   mixed[Offset[i - 1] + j] = others[i].words[j]

\* The request the step just handed to AsyncStorage, if it issued a write.
IssuedWrite ==
    /\ Len(pending') = Len(pending) + 1
    /\ pending'[Len(pending')].op = "set"

\* C4: in every reachable state, after every category operation and between
\* operations, the word list of 'mixta' is the concatenation of the word lists
\* of all other categories.
C4_MixedWords ==
    /\ Has(CATEGORIES, "mixta")
    /\ MixedIsConcatenation(CATEGORIES)

C4_Witness ==
    /\ lastOp = "addWordToCategory"
    /\ Has(CATEGORIES, "fiesta")
    /\ Get(CATEGORIES, "fiesta").words = <<"Zeta">>
    /\ Includes(Get(CATEGORIES, "lugares").words, "Zeta")
    /\ Len(Get(CATEGORIES, "mixta").words) = 6

\* C5: isCategoryModified(key) is false for 'mixta', true for a key that is
\* not a built-in, and for a built-in key true exactly when the in-memory
\* words (in order), name or emoji differ from the shipped default.
C5_ModifiedIffDiffers ==
    \A key \in KeysOf(ShippedDefaults) \cup KeysOf(CATEGORIES) \cup OpKeys :
        isCategoryModified(key) <=>
            /\ key # "mixta"
            /\ \/ ~Has(ShippedDefaults, key)
               \/ ~SameContent(Get(CATEGORIES, key), Get(ShippedDefaults, key))

\* C6: the blob saveCustomCategories writes holds a key exactly when the
\* in-memory category differs from its shipped default in words, name or
\* emoji, or is a custom category; 'mixta' is never written.
C6_DifferentialWrite ==
    [][IssuedWrite =>
           KeysOf(pending'[Len(pending')].val.val) =
               {k \in KeysOf(CATEGORIES') \ {"mixta"} :
                    DiffersFromShipped(CATEGORIES', k)}]_vars

\* C7: resetCategoryToDefault(key) for a built-in key leaves that category
\* with the shipped words, name and emoji whatever edits preceded it and
\* recomputes 'mixta'; for 'mixta' or a key that is not a built-in it changes
\* nothing.
C7_ResetRestoresShipped ==
    [][\A key \in OpKeys :
           ResetCategoryToDefault(key) =>
               IF key # "mixta" /\ Has(ShippedDefaults, key)
               THEN /\ SameContent(Get(CATEGORIES', key), Get(ShippedDefaults, key))
                    /\ MixedIsConcatenation(CATEGORIES')
               ELSE CATEGORIES' = CATEGORIES]_vars

\* C8: when resetCategoriesToDefault completes and the store has carried out
\* the removal, the in-memory set has exactly the built-in keys, each with the
\* shipped content, 'mixta' is recomputed from them and no custom category
\* remains.
C8_ResetAllRestoresShipped ==
    [][(ResetCategoriesToDefaultResolve /\ store' = NoBlob) =>
           /\ KeysOf(CATEGORIES') = KeysOf(ShippedDefaults)
           /\ \A k \in KeysOf(ShippedDefaults) \ {"mixta"} :
                  /\ SameContent(Get(CATEGORIES', k), Get(ShippedDefaults, k))
                  /\ ~Get(CATEGORIES', k).isCustom
           /\ MixedIsConcatenation(CATEGORIES')]_vars

\* C9: createCategory with a key that already exists returns false, changes
\* nothing and issues no write; with a fresh key it returns true, adds the
\* category with isCustom true, recomputes 'mixta' and issues a write.
C9_CreateCategory ==
    [][\A key \in NewKeys, words \in NewWordLists :
           CreateCategory(key, "Fiesta", "e-fiesta", words) =>
               IF Has(CATEGORIES, key)
               THEN /\ lastResult' = "false"
                    /\ UNCHANGED <<CATEGORIES, DEFAULT_CATEGORIES, pending, store>>
               ELSE /\ lastResult' = "true"
                    /\ KeysOf(CATEGORIES') = KeysOf(CATEGORIES) \cup {key}
                    /\ Get(CATEGORIES', key).isCustom
                    /\ Get(CATEGORIES', key).words = words
                    /\ \A k \in KeysOf(CATEGORIES) \ {"mixta"} :
                           Get(CATEGORIES', k) = Get(CATEGORIES, k)
                    /\ MixedIsConcatenation(CATEGORIES')
                    /\ IssuedWrite]_vars

C9_Witness ==
    /\ lastOp = "createCategory"
    /\ lastResult = "false"
    /\ Has(CATEGORIES, "fiesta")
    /\ Get(CATEGORIES, "fiesta").isCustom

\* C10: deleteCategory returns false, changes nothing and issues no write for
\* 'mixta', for a key that does not exist and for a built-in category,
\* modified or not; for a custom category it returns true, removes the key,
\* and 'mixta' shrinks by exactly that category's words.
C10_DeleteCategory ==
    [][\A key \in OpKeys :
           DeleteCategory(key) =>
               IF key = "mixta" \/ ~Has(CATEGORIES, key) \/ Has(ShippedDefaults, key)
               THEN /\ lastResult' = "false"
                    /\ UNCHANGED <<CATEGORIES, DEFAULT_CATEGORIES, pending, store>>
               ELSE /\ lastResult' = "true"
                    /\ KeysOf(CATEGORIES') = KeysOf(CATEGORIES) \ {key}
                    /\ \A k \in KeysOf(CATEGORIES') \ {"mixta"} :
                           Get(CATEGORIES', k) = Get(CATEGORIES, k)
                    /\ Len(Get(CATEGORIES', "mixta").words) =
                           Len(Get(CATEGORIES, "mixta").words)
                               - Len(Get(CATEGORIES, key).words)
                    /\ MixedIsConcatenation(CATEGORIES')]_vars

\* A custom category that held a word (the blob of the write before still
\* shows it) has been deleted.
C10_Witness ==
    /\ lastOp = "deleteCategory"
    /\ lastResult = "true"
    /\ ~Has(CATEGORIES, "fiesta")
    /\ ~Includes(Get(CATEGORIES, "mixta").words, "Zeta")
    /\ store.kind = "json"
    /\ \E i \in 1..Len(store.val) :
           store.val[i].key = "fiesta" /\ store.val[i].words = <<"Zeta">>

\* C11: addWordToCategory(key, w) appends w at the end of the category's word
\* list when the list does not hold it, and a call made when the list already
\* holds w (so every second call with the same key and word) changes neither
\* the word list nor 'mixta' nor anything else of the set, and issues no write.
C11_AddWordIdempotent ==
    [][\A key \in OpKeys \ {"mixta"}, word \in AddWords :
           (AddWordToCategory(key, word) /\ Has(CATEGORIES, key)) =>
               LET before == Get(CATEGORIES, key).words
                   after == Get(CATEGORIES', key).words
               IN  /\ Includes(after, word)
                   /\ Includes(before, word) =>
                          UNCHANGED <<CATEGORIES, DEFAULT_CATEGORIES, pending, store>>
                   /\ ~Includes(before, word) =>
                          /\ after = Append(before, word)
                          /\ IssuedWrite]_vars

\* Two calls were made, the last one addWordToCategory, and the only write in
\* flight is the one of the call that appended the word.
C11_Witness ==
    /\ calls = 2
    /\ lastOp = "addWordToCategory"
    /\ Get(CATEGORIES, "lugares").words = <<"Playa", "Avion", "Zeta">>
    /\ Get(CATEGORIES, "mixta").words = <<"Playa", "Avion", "Zeta", "Carro", "Avion">>
    /\ Len(pending) = 1
    /\ pending[1].op = "set"

\* C12: in every state reachable from the shipped defaults by category
\* operations, no category's word list holds an empty string and no category's
\* word list holds the same word twice.
C12_NoEmptyNoDuplicate ==
    \A c \in 1..Len(CATEGORIES) :
        LET words == CATEGORIES[c].words
        IN  /\ \A i \in 1..Len(words) : words[i] # ""
            /\ \A i, j \in 1..Len(words) : i # j => words[i] # words[j]

\* C15: loadCustomCategories always completes, even when the storage fails or
\* never responds, because every storage call it awaits is bounded by a
\* timeout: a call that has started returns.
C15_LoadCompletes == (loadPc # "idle") ~> (loadPc = "idle")

\* Keys of the categories a blob of the storage holds.
BlobKeys(blob) == IF blob.kind = "json" THEN KeysOf(blob.val) ELSE {}

\* `key` is in neither the in-memory set, nor the stored blob, nor a write in
\* flight.
Gone(cats, blob, requests, key) ==
    /\ ~Has(cats, key)
    /\ key \notin BlobKeys(blob)
    /\ \A i \in 1..Len(requests) :
           requests[i].op = "set" => key \notin BlobKeys(requests[i].val)

IsShippedSet(cats) ==
    /\ KeysOf(cats) = KeysOf(ShippedDefaults)
    /\ \A k \in KeysOf(ShippedDefaults) \ {"mixta"} :
           /\ SameContent(Get(cats, k), Get(ShippedDefaults, k))
           /\ ~Get(cats, k).isCustom
    /\ MixedIsConcatenation(cats)

\* C14: when the stored value is not parseable JSON or fails the shape
\* validation, loadCustomCategories hands the removal of the key to the store
\* and leaves the in-memory set equal to the built-in defaults with 'mixta'
\* recomputed; when the key is absent it leaves the same set and issues no
\* removal.
C14_CorruptLoad ==
    [][/\ (LoadGetResolve /\ loadPc' = "remove") =>
              /\ ~ParsesValid(store) /\ store # NoBlob
              /\ Len(pending') = Len(pending) + 1
              /\ pending'[Len(pending')].op = "remove"
       /\ (LoadRemoveResolve /\ loadPc' = "logs") => IsShippedSet(CATEGORIES')
       /\ (LoadGetResolve /\ loadPc' = "logs" /\ store = NoBlob) =>
              /\ IsShippedSet(CATEGORIES')
              /\ UNCHANGED <<pending, store>>]_vars

----------------------------------------------------------------------------
(* Properties of the persistence of the game configuration                 *)

\* What loadGameState makes of a stored value that is read.
StoredConfig(blob) == IF GameParsesValid(blob) THEN blob.val ELSE <<>>

PersistableKeys == Range(PERSISTABLE_KEYS)

\* The call in slot i is the only one in flight and no request is orphaned.
Alone(i) ==
    /\ gameOrphans = <<>>
    /\ \A j \in GameSlots \ {i} : gameOps[j].pc \in {"idle", "returned"}

\* C16: when the store works (the write takes effect, and the store still holds
\* what the save read), a save that resolves has stored, for every persistable
\* field of its argument, that field's value, and for every persistable field
\* the argument does not supply, the value persisted before; and a
\* loadGameState that then reads the store, with no other call in flight,
\* returns the players, selectedCategory and selectedVariant of that argument.
C16_SaveLoadRoundTrip ==
    [][\A i \in GameSlots :
          /\ (/\ GameWriteResolve(i, "done")
              /\ gameOps[i].existing = StoredConfig(gameStore)) =>
                 /\ gameOps'[i].result = "true"
                 /\ GameParsesValid(gameStore')
                 /\ \A k \in PersistableKeys :
                        /\ Has(gameOps[i].config, k) =>
                               /\ Has(gameStore'.val, k)
                               /\ Get(gameStore'.val, k) = Get(gameOps[i].config, k)
                        /\ (~Has(gameOps[i].config, k)
                            /\ Has(StoredConfig(gameStore), k)) =>
                               /\ Has(gameStore'.val, k)
                               /\ Get(gameStore'.val, k) =
                                      Get(StoredConfig(gameStore), k)
          /\ \A j \in GameSlots :
                 (/\ gameOps[i].kind = "load"
                  /\ GameReadResolve(i, gameStore)
                  /\ Alone(i)
                  /\ gameOps[j].kind = "save"
                  /\ gameOps[j].pc = "returned"
                  /\ gameOps[j].result = "true"
                  /\ gameStore = JsonBlob(gameOps[j].merged)) =>
                     /\ gameOps'[i].pc = "returned"
                     /\ \A k \in PersistableKeys :
                            Has(gameOps[j].config, k) =>
                                /\ Has(gameOps'[i].value, k)
                                /\ Get(gameOps'[i].value, k) =
                                       Get(gameOps[j].config, k)]_vars

\* A load has returned the whole configuration saved first with the one
\* field of the partial save after it.
C16_Witness ==
    \E i \in GameSlots :
        /\ gameOps[i].kind = "load"
        /\ gameOps[i].pc = "returned"
        /\ gameOps[i].value =
               << Entry("players", Arr(<<"Ana", "Bea", "Cid">>)),
                  Entry("selectedCategory", Str("lugares")),
                  Entry("selectedVariant", Str("classic")) >>

\* C17: saveGameState returns false when the store rejects the write and when
\* the write does not complete within the timeout, and returns true only when
\* the merged configuration has been stored.
C17_SaveResult ==
    [][\A i \in GameSlots :
          /\ GameWriteResolve(i, "rejected") => gameOps'[i].result = "false"
          /\ GameWriteResolve(i, "timeout") => gameOps'[i].result = "false"
          /\ \A outcome \in AwaitOutcomes :
                 (GameWriteResolve(i, outcome) /\ gameOps'[i].result = "true") =>
                     gameStore' = JsonBlob(gameOps[i].merged)]_vars

\* The state the screen restores on mount from what loadGameState returned:
\* the initial state with the three configuration fields of a saved roster.
RestoreOnMount(saved) ==
    LET initial == << Entry("players", Arr(<<>>)),
                      Entry("selectedCategory", Str("mixta")),
                      Entry("selectedVariant", Str("classic")),
                      Entry("secretWord", Str("")),
                      Entry("currentScreen", Str("setup")) >>
        field(k) == IF Has(saved, k) THEN Get(saved, k) ELSE Get(initial, k)
    IN  IF Has(saved, "players") /\ Len(Get(saved, "players").value.items) > 0
        THEN Spread(initial, << field("players"), field("selectedCategory"),
                                field("selectedVariant") >>)
        ELSE initial

\* C18: whatever state is passed and whatever was stored before, a blob that
\* saveGameState hands to the store, and so every value the store takes from
\* it, holds no key other than players, selectedCategory and selectedVariant;
\* and the state restored from what loadGameState returns is on the setup
\* screen with no secret word.
C18_PersistableKeysOnly ==
    [][/\ \A i \in GameSlots :
              gameOps'[i].pc = "write" =>
                  KeysOf(gameOps'[i].merged) \subseteq PersistableKeys
       /\ \A k \in 1..Len(gameOrphans') :
              KeysOf(gameOrphans'[k].val) \subseteq PersistableKeys
       /\ gameStore' # gameStore =>
              KeysOf(gameStore'.val) \subseteq PersistableKeys
       /\ \A i \in GameSlots :
              (gameOps'[i].kind = "load" /\ gameOps'[i].pc = "returned") =>
                  /\ Get(RestoreOnMount(gameOps'[i].value), "currentScreen").value
                         = Str("setup")
                  /\ Get(RestoreOnMount(gameOps'[i].value), "secretWord").value
                         = Str("")]_vars

\* A state in the middle of a round was saved over the blob of an earlier
\* version: the stored value holds its players and the variant of the older
\* blob, and nothing else.
C18_Witness ==
    /\ gameStore.kind = "json"
    /\ gameStore.val = << Entry("players", Arr(<<"Dan", "Eva", "Fay">>)),
                          Entry("selectedVariant", Str("jester")) >>

\* Stored values that are not parseable JSON or have an invalid shape.
InvalidGameStores == {NotJson, BadShapeGame, BadPlayersGame, BadVariantGame}

\* C19: loadGameState asks the store to remove the value and returns {} when
\* the stored value is not parseable or has an invalid shape; it returns {}
\* and removes nothing when the key is absent or the read fails or times out;
\* otherwise it returns the stored configuration.
C19_LoadGameState ==
    [][\A i \in GameSlots :
          gameOps[i].kind = "load" =>
              /\ (GameReadResolve(i, gameStore) /\ gameStore \in InvalidGameStores) =>
                     gameOps'[i].pc = "remove"
              /\ \A outcome \in AwaitOutcomes :
                     GameRemoveResolve(i, outcome) =>
                         /\ gameOps'[i].pc = "returned"
                         /\ gameOps'[i].value = <<>>
                         /\ outcome = "done" => gameStore' = NoBlob
              /\ GameReadResolve(i, NoBlob) =>
                     /\ gameOps'[i].pc = "returned"
                     /\ gameOps'[i].value = <<>>
                     /\ UNCHANGED <<gameStore, gameOrphans>>
              /\ (/\ GameReadResolve(i, gameStore)
                  /\ gameStore \notin InvalidGameStores \cup {NoBlob}) =>
                     /\ gameOps'[i].pc = "returned"
                     /\ gameOps'[i].value = gameStore.val
                     /\ UNCHANGED <<gameStore, gameOrphans>>]_vars

\* The first call, a load, found an invalid value, had it removed and
\* returned {}.
C19_Witness ==
    \E i \in GameSlots :
        /\ gameOps[i].kind = "load"
        /\ gameOps[i].pc = "returned"
        /\ gameOps[i].removal = "done"
        /\ gameOps[i].value = <<>>
        /\ gameStore = NoBlob
        /\ calls = 1

----------------------------------------------------------------------------
(* Properties of the secret word                                           *)

\* C20: for every category key, existing or not, startNewGame takes the named
\* category's words when the key exists and the words of 'mixta' otherwise,
\* and the secretWord it draws is a string that is an element of that list.
C20_SecretWordFromList ==
    [][SelectWord =>
          LET wordList == IF Has(CATEGORIES, category)
                          THEN Get(CATEGORIES, category).words
                          ELSE Get(CATEGORIES, "mixta").words
          IN  /\ secretWord' # UNDEFINED
              /\ Includes(wordList, secretWord')]_vars

----------------------------------------------------------------------------
(* Properties of overlapping operations                                    *)

\* The differential snapshot of the in-memory state.
Snapshot == customCategoriesOf(CATEGORIES, DEFAULT_CATEGORIES)

\* C21: last write wins.  With the writes of two mutating operations in
\* flight together, the newest write carries the differential snapshot of the
\* final in-memory state, and once that snapshot is the persisted blob a
\* write of the older operation that completes afterwards leaves it in place.
C21_LastWriteWins ==
    [][StorageComplete =>
          /\ (/\ Len(pending) = 2
              /\ pending' = <<pending[1]>>
              /\ store' = pending[2].val) => store' = Snapshot
          /\ (Len(pending) = 1 /\ store = Snapshot) => store' = Snapshot]_vars

\* The category sets `a` and `b` hold the same keys with the same content.
SameSet(a, b) ==
    /\ KeysOf(a) = KeysOf(b)
    /\ \A k \in KeysOf(a) : SameContent(Get(a, k), Get(b, k))

\* The last operation that returned is a mutating one, and its write, which
\* carries the snapshot of the in-memory set, is still in flight.
MutationInFlight ==
    /\ lastOp \in {"addWordToCategory", "removeWordFromCategory", "createCategory",
                   "deleteCategory", "resetCategoryToDefault"}
    /\ pending # <<>>
    /\ pending[Len(pending)].by = "save"
    /\ pending[Len(pending)].val = Snapshot

\* C22: a loadCustomCategories call interleaved with a mutating operation
\* never replaces the in-memory set with what it read before the mutation was
\* stored: when the load assigns the set, the set still reflects the mutation.
C22_LoadKeepsMutation ==
    [][((LoadGetResolve \/ LoadRemoveResolve) /\ loadPc' = "logs"
        /\ MutationInFlight) => SameSet(CATEGORIES', CATEGORIES)]_vars

----------------------------------------------------------------------------
(* Termination of startNewGame                                             *)

\* C23: once called, startNewGame runs to completion and returns a round,
\* whatever the entropy source does on each draw; the shuffle makes n-1 draws
\* (one per swap, its counter going down from n-1 to 1), the selection of the
\* impostors at most impostorCount, the selection of the jester at most one,
\* and the word and the starter one each.
C23_RoundCompletes ==
    /\ (pc # "idle") ~> (pc = "done")
    /\ [][/\ ShuffleStep =>
                 /\ loopI \in 1..(Len(players) - 1)
                 /\ loopI' = loopI - 1
          /\ SelectImpostorStep =>
                 /\ loopI \in 0..(GAME_VARIANTS[variant].impostorCount - 1)
                 /\ loopI' = loopI + 1
          /\ SelectJester => pc' = "word"
          /\ SelectWord => pc' = "starter"
          /\ SelectStarter => pc' = "done"]_vars

\* A round of chaos with five players has been returned: four draws of the
\* shuffle, two for the impostors, one for the jester, the word, the starter.
C23_Witness ==
    /\ pc = "done"
    /\ variant = "chaos"
    /\ Len(shuffledPlayers) = 5
    /\ Len(impostorIndices) = 2
    /\ jesterIndex >= 0
    /\ secretWord # UNDEFINED
    /\ starterPlayer # UNDEFINED

----------------------------------------------------------------------------
(* Properties of shuffleArray and selectUniqueIndices                      *)

\* How many times x occurs in arr.
Count(arr, x) == Cardinality({i \in 1..Len(arr) : arr[i] = x})

\* C24: for every input array and every sequence of draws, shuffleArray
\* returns an array of the same length with the same elements as many times
\* each, the input array itself is not changed, and an empty or
\* single-element array is returned as it is with no draw.
C24_ShufflePermutation ==
    [][/\ ShuffleStep => (Len(players) >= 2 /\ players' = players)
       /\ ShuffleReturn =>
              /\ players' = players
              /\ Len(shuffledPlayers') = Len(players)
              /\ \A x \in {"Ana", "Bea", "Cid"} :
                     Count(shuffledPlayers', x) = Count(players, x)
              /\ Len(players) <= 1 => shuffledPlayers' = players]_vars

\* An array that holds a name twice has been shuffled into another order.
C24_Witness ==
    /\ pc = "impostors"
    /\ players = <<"Ana", "Bea", "Ana">>
    /\ shuffledPlayers = <<"Ana", "Ana", "Bea">>

\* `indices` is what the claim allows selectUniqueIndices(count, max, exclude)
\* to return.
SelectsFromPool(indices, count, max, exclude) ==
    LET pool == (0..(max - 1)) \ Range(exclude)
    IN  /\ Len(indices) = Min(count, Cardinality(pool))
        /\ \A a, b \in 1..Len(indices) : a # b => indices[a] # indices[b]
        /\ Range(indices) \subseteq pool
        /\ count >= Cardinality(pool) => Range(indices) = pool

\* C25: for every count >= 0, max > 0 and exclusion array, selectUniqueIndices
\* returns min(count, size of the pool) pairwise distinct indices of [0, max)
\* outside the exclusion, the whole pool when count exceeds it, and always
\* returns; the selections of startNewGame are such results.
C25_UniqueIndices ==
    /\ \A count \in 0..MaxSelectCount, max \in 1..MaxSelectMax,
          exclude \in ExcludeLists :
           /\ selectUniqueIndices(count, max, exclude) # {}
           /\ \A indices \in selectUniqueIndices(count, max, exclude) :
                  SelectsFromPool(indices, count, max, exclude)
    /\ [][/\ SelectImpostorsReturn =>
                 /\ impostorIndices \in
                        selectUniqueIndices(GAME_VARIANTS[variant].impostorCount,
                                            Len(shuffledPlayers), <<>>)
                 /\ SelectsFromPool(impostorIndices,
                                    GAME_VARIANTS[variant].impostorCount,
                                    Len(shuffledPlayers), <<>>)
          /\ SelectJester =>
                 LET jesterIndices == IF jesterIndex' = -1 THEN <<>>
                                      ELSE <<jesterIndex'>>
                 IN  /\ jesterIndices \in
                            selectUniqueIndices(1, Len(shuffledPlayers),
                                                impostorIndices)
                     /\ SelectsFromPool(jesterIndices, 1, Len(shuffledPlayers),
                                        impostorIndices)]_vars

\* Two impostors were asked for with a single player, so the selection
\* returned the whole pool, and the jester's selection found its pool empty.
C25_Witness ==
    /\ pc = "word"
    /\ variant = "chaos"
    /\ Len(shuffledPlayers) = 1
    /\ impostorIndices = <<0>>
    /\ jesterIndex = -1

----------------------------------------------------------------------------
(* Properties of the role records                                          *)

\* C26: in every returned round a record has a partnerName only if it is an
\* impostor's and the variant has impostorsKnowEachOther with more than one
\* impostor; no citizen or jester has one, and no impostor has one in classic,
\* double-impostor, jester or chaos.
C26_PartnerNameOnlyAccomplices ==
    Returned =>
        \A i \in 1..Len(playerRoles) :
            /\ playerRoles[i].partnerName # UNDEFINED =>
                   /\ playerRoles[i].role = "impostor"
                   /\ GAME_VARIANTS[variant].impostorsKnowEachOther
                   /\ GAME_VARIANTS[variant].impostorCount > 1
            /\ playerRoles[i].role \in {"citizen", "jester"} =>
                   playerRoles[i].partnerName = UNDEFINED
            /\ variant \in {"classic", "double-impostor", "jester", "chaos"} =>
                   playerRoles[i].partnerName = UNDEFINED

\* A round of accomplices is returned where an impostor record names its
\* partner and a citizen record names nobody.
C26_Witness ==
    /\ Returned
    /\ variant = "accomplices"
    /\ Len(players) = 5
    /\ \E i \in 1..Len(playerRoles) :
           /\ playerRoles[i].role = "impostor"
           /\ playerRoles[i].partnerName # UNDEFINED
    /\ \E i \in 1..Len(playerRoles) :
           /\ playerRoles[i].role = "citizen"
           /\ playerRoles[i].partnerName = UNDEFINED

----------------------------------------------------------------------------
(* Properties of the built-in defaults                                     *)

\* C27: no category operation changes the built-in defaults: in every
\* reachable state DEFAULT_CATEGORIES holds the shipped keys, each with the
\* shipped words, name and emoji.
C27_DefaultsUnchanged ==
    /\ KeysOf(DEFAULT_CATEGORIES) = KeysOf(ShippedDefaults)
    /\ \A k \in KeysOf(ShippedDefaults) :
           SameContent(Get(DEFAULT_CATEGORIES, k), Get(ShippedDefaults, k))

----------------------------------------------------------------------------
(* Properties across a restart                                             *)

\* loadCustomCategories in a process that has just started, so that its
\* DEFAULT_CATEGORIES are the shipped ones, reading `saved`.
FreshLoad(saved) ==
    IF ParsesValid(saved)
    THEN updateMixedCategory(Spread(InitialDefaults, ParseAll(saved.val)))
    ELSE updateMixedCategory(InitialDefaults)

\* C28: customizations survive a restart.  When the write of the newest
\* mutation, here additions to and removals from the built-in category
\* 'lugares', completes successfully with no other write in flight, a fresh
\* process that runs loadCustomCategories has the word list of 'lugares' that
\* the process which made the edits has.
C28_EditsSurviveRestart ==
    [][(/\ StorageComplete
        /\ lastOp \in {"addWordToCategory", "removeWordFromCategory"}
        /\ Len(pending) = 1
        /\ pending[1].val = Snapshot
        /\ store' = pending[1].val) =>
           Get(FreshLoad(store'), "lugares").words
               = Get(CATEGORIES, "lugares").words]_vars

----------------------------------------------------------------------------
(* Properties of the game screen                                           *)

\* C29: every call of startNewGame made by handleStartGame or handlePlayAgain
\* passes a player list with at least minPlayers of the selected variant.
C29_StartsWithEnoughPlayers ==
    [][(HandleStartGame \/ HandlePlayAgain) =>
           Len(players') >= GAME_VARIANTS[variant'].minPlayers]_vars

----------------------------------------------------------------------------
(* Properties of overlapping saves                                         *)

\* C30: overlapping saveGameState calls lose no update.  Two calls whose
\* configurations set different fields have both read the same persisted
\* configuration before either wrote; the write of one is in the store and
\* the write of the other now takes effect: the persisted configuration
\* holds the fields of both.
C30_OverlappingSaves ==
    [][\A i, j \in GameSlots :
          (/\ i # j
           /\ GameWriteResolve(i, "done")
           /\ gameOps[j].kind = "save"
           /\ gameOps[j].pc = "returned"
           /\ gameOps[j].result = "true"
           /\ gameStore = JsonBlob(gameOps[j].merged)
           /\ gameOrphans = <<>>
           /\ gameOps[i].existing = gameOps[j].existing
           /\ gameOps[i].config # <<>>
           /\ gameOps[j].config # <<>>
           /\ KeysOf(gameOps[i].config) \cap KeysOf(gameOps[j].config) = {}) =>
              \A op \in {gameOps[i], gameOps[j]} :
                  \A k \in KeysOf(op.config) :
                      /\ Has(gameStore'.val, k)
                      /\ Get(gameStore'.val, k) = Get(op.config, k)]_vars

====
